---- MODULE Spec2Model ----
(***************************************************************************)
(* A model of edgar13f: the transport (http_get), the directory resolver   *)
(* (index_listing_for_accession), the document selector                    *)
(* (find_information_table_filename) and the retrieval orchestrator        *)
(* (fetch_information_table_xml) of src/edgar13f/fetch.py.                 *)
(*                                                                         *)
(* Strings the code inspects character by character (file names,           *)
(* identifiers, accession tokens) are sequences of one-character strings.  *)
(* Durations are in tenths of a second (0.5 s = 5, 1.5 s = 15).            *)
(***************************************************************************)
EXTENDS Integers, Sequences, FiniteSets, TLC

VARIABLES
    mode,       \* which top-level caller drives the run
    h_pc,       \* http_get: "idle", "loop", "returned", "raised"
    h_url,      \* http_get: url
    retries,    \* http_get: retries
    sleep_s,    \* http_get: sleep_s
    attempt,    \* http_get: loop variable of for attempt in range(1, retries + 1)
    last_exc,   \* http_get: last_exc
    h_result,   \* http_get: the response returned or the HTTPError raised
    resps,      \* history: the responses requests.get gave in this call
    sleeps,     \* history: the time.sleep calls made in this call
    pc,         \* fetch_information_table_xml: position
    cik,        \* fetch_information_table_xml: cik
    accession,  \* fetch_information_table_xml: accession
    candidates, \* fetch_information_table_xml: candidates
    ci,         \* fetch_information_table_xml: number of the candidate the for loop is at
    last_err,   \* fetch_information_table_xml: last_err
    fname,      \* fetch_information_table_xml: fname
    listing,    \* fetch_information_table_xml: the names of listing["files"]
    f_result,   \* fetch_information_table_xml: the text returned or the error raised
    hi,         \* index_listing_for_accession: number of the HTML candidate the loop is at
    l_res,      \* history: how the latest index_listing_for_accession call ended
    l_steps,    \* history: the fetches of the latest index_listing_for_accession call
    tried,      \* history: how each candidate tried so far ended
    log,        \* history: the urls http_get was called with, in order
    nreq,       \* history: the number of requests.get calls made so far
    arg,        \* a function called on its own: its argument
    ret,        \* a function called on its own: what it returned
    r_pc,       \* run: position
    r_args,     \* run: manager, cik, filing_month, summary_json
    raw_cik,    \* run: raw_cik
    submissions,\* run: submissions
    latest,     \* run: latest
    period_end, \* run: period_end
    rows,       \* run: rows
    fs,         \* the files written so far, in order
    stages,     \* history: the stages of run executed so far and how each ended
    r_exit      \* run: how it ended

hvars == <<h_pc, h_url, retries, sleep_s, attempt, last_exc, h_result, resps, sleeps>>
pvars == <<pc, cik, accession, candidates, ci, last_err, fname, listing, f_result,
           hi, l_res, l_steps, tried, log>>
rvars == <<r_pc, r_args, raw_cik, submissions, latest, period_end, rows, fs, stages, r_exit>>
ovars == <<arg, ret, rvars>>
vars == <<mode, hvars, pvars, nreq, ovars>>

-----------------------------------------------------------------------------
(* Bounds *)

MaxRetries == 3

-----------------------------------------------------------------------------
(* Values *)

\* Python's None, and the exceptions requests raises, as records of one shape.
\* "at" is the attempt that created the exception object (its identity).
NoneExc == [type |-> "None", status |-> "", at |-> 0]
ReqExc(t, st, k) == [type |-> t, status |-> st, at |-> k]

\* What one requests.get can end in: a status code (written as a string), or a
\* network-level failure.
RetryStatuses == {"429", "503"}
ErrorStatuses == {"404", "500"}
NetFailures   == {"Timeout", "ConnectionError"}

\* The answers the server gives in a run: each of them when http_get is called
\* on its own, one of each class inside a run of fetch_information_table_xml.
\* Under run every failure of a fetch ends in the same HTTPError: there the
\* server answers or times out.
RetryAnswers ==
    CASE mode = "http" -> RetryStatuses
      [] mode = "run"  -> {}
      [] OTHER         -> {"503"}
ErrorAnswers ==
    CASE mode = "http" -> ErrorStatuses
      [] mode = "run"  -> {}
      [] OTHER         -> {"404"}
NetAnswers   == IF mode = "http" THEN NetFailures ELSE {"Timeout"}

\* A url https://sec.gov/Archives/edgar/data/{cik_dir}/{nd}/{file}
Url(cd, nd, f) == [cik_dir |-> cd, nd |-> nd, file |-> f]
NoUrl == Url(<<>>, <<>>, <<>>)
TestUrl == Url(<<"t">>, <<"t">>, <<"t">>)

\* A response body: how resp.json() sees it (json: "invalid" raises, "other" is
\* JSON without a list of items under directory.item, "items" has one), the
\* href values its <a> tags carry, and its text.
Body(j, items, hrefs, text) == [json |-> j, items |-> items, hrefs |-> hrefs, text |-> text]
NoBody == Body("invalid", <<>>, <<>>, "")

\* What a call ends in: a response, or an exception of class kind with its
\* message (msg, the url or directory it names, the cause it quotes).
NoResult == [kind |-> "none", msg |-> "", status |-> "", body |-> NoBody, url |-> NoUrl, cause |-> NoneExc]
Response(st, b, u) == [kind |-> "response", msg |-> "", status |-> st, body |-> b, url |-> u, cause |-> NoneExc]
\* HTTPError(f"GET {url} failed after {retries} attempts: {last_exc}")
GetFailed(u, e) == [kind |-> "HTTPError", msg |-> "GET failed", status |-> "", body |-> NoBody, url |-> u, cause |-> e]

Min(a, b) == IF a < b THEN a ELSE b

\* time.sleep(d), recorded with the reason of the sleep
Slept(why, d) == [why |-> why, dur |-> d]

-----------------------------------------------------------------------------
(* Strings: a Python str is a sequence of one-character strings *)

UpperLetters == <<"A","B","C","D","E","F","G","H","I","J","K","L","M",
                  "N","O","P","Q","R","S","T","U","V","W","X","Y","Z">>
LowerLetters == <<"a","b","c","d","e","f","g","h","i","j","k","l","m",
                  "n","o","p","q","r","s","t","u","v","w","x","y","z">>
Digits == {"0","1","2","3","4","5","6","7","8","9"}

\* str.lower(), character by character
LowerChar(c) ==
    IF \E i \in 1..26 : UpperLetters[i] = c
    THEN LowerLetters[CHOOSE i \in 1..26 : UpperLetters[i] = c]
    ELSE c
Lower(s) == [i \in 1..Len(s) |-> LowerChar(s[i])]

\* s.endswith(suf)
EndsWith(s, suf) ==
    /\ Len(suf) <= Len(s)
    /\ \A i \in 1..Len(suf) : s[Len(s) - Len(suf) + i] = suf[i]

\* sub in s
Contains(s, sub) ==
    \E k \in 0..(Len(s) - Len(sub)) : \A i \in 1..Len(sub) : s[k + i] = sub[i]

\* s[a:b] with 0 <= a, Python's clamping of the slice bounds
Slice(s, a, b) ==
    LET start == Min(a, Len(s))
        stop  == Min(b, Len(s))
    IN  IF stop <= start THEN <<>> ELSE SubSeq(s, start + 1, stop)

\* s.replace(c, "") for a one-character c
RECURSIVE Remove(_, _)
Remove(s, c) ==
    IF s = <<>> THEN <<>>
    ELSE IF Head(s) = c THEN Remove(Tail(s), c)
    ELSE <<Head(s)>> \o Remove(Tail(s), c)

\* s.split(c)[0]: the text before the first c, all of s when there is none
RECURSIVE SplitFirst(_, _)
SplitFirst(s, c) ==
    IF s = <<>> \/ Head(s) = c THEN <<>>
    ELSE <<Head(s)>> \o SplitFirst(Tail(s), c)

\* s.split(c)[-1]: the text after the last c, all of s when there is none
RECURSIVE SplitLast(_, _)
SplitLast(s, c) ==
    IF \E i \in 1..Len(s) : s[i] = c
    THEN SplitLast(Tail(s), c)
    ELSE s

\* The strings the code names
DOT_XML == <<".", "x", "m", "l">>
INFORMATIONTABLE == <<"i", "n", "f", "o", "r", "m", "a", "t", "i", "o", "n", "t", "a", "b", "l", "e">>
INFOTABLE == <<"i", "n", "f", "o", "t", "a", "b", "l", "e">>
FORM13FINFO == <<"f", "o", "r", "m", "1", "3", "f", "i", "n", "f", "o">>
PRIMARY_DOC_XML == <<"p", "r", "i", "m", "a", "r", "y", "_", "d", "o", "c", ".", "x", "m", "l">>
INDEX_JSON == <<"i", "n", "d", "e", "x", ".", "j", "s", "o", "n">>
INDEX_HTML_SUFFIX == <<"-", "i", "n", "d", "e", "x", ".", "h", "t", "m", "l">>

\* a name that is None instead of a str (a JSON item whose "name" is null)
NoneName == <<"None">>

-----------------------------------------------------------------------------
(* find_information_table_filename *)

\* what the selector gives: a str, None, or the AttributeError of None.lower()
FoundName(n) == [kind |-> "str", name |-> n]
NotFound == [kind |-> "None", name |-> <<>>]
RaisedAttributeError == [kind |-> "AttributeError", name |-> <<>>]

\* n.endswith(".xml") and ("informationtable" in n or "infotable" in n or "form13finfo" in n)
IsCanonical(n) ==
    /\ EndsWith(n, DOT_XML)
    /\ (Contains(n, INFORMATIONTABLE) \/ Contains(n, INFOTABLE) \/ Contains(n, FORM13FINFO))

\* (mutant) the fallback takes primary_doc.xml too
IsOtherXml_AnyXml(n) == EndsWith(n, DOT_XML)

\* n.endswith(".xml") and n != "primary_doc.xml"
IsOtherXml(n) == EndsWith(n, DOT_XML) /\ n # PRIMARY_DOC_XML

\* n == "primary_doc.xml"
IsPrimary(n) == n = PRIMARY_DOC_XML

LoopTest(k, n) ==
    CASE k = 1 -> IsCanonical(n)
      [] k = 2 -> IsOtherXml(n)
      [] k = 3 -> IsPrimary(n)

\* for n in files: if <test k>: return n
RECURSIVE Loop(_, _)
Loop(files, k) ==
    IF files = <<>> THEN NotFound
    ELSE IF LoopTest(k, Head(files)) THEN FoundName(Head(files))
    ELSE Loop(Tail(files), k)

\* listing is the list of the "name" values of listing["files"]
find_information_table_filename(names) ==
    IF \E i \in 1..Len(names) : names[i] = NoneName
    THEN RaisedAttributeError
    ELSE LET files == [i \in 1..Len(names) |-> Lower(names[i])]
         IN  IF Loop(files, 1) # NotFound THEN Loop(files, 1)
             ELSE IF Loop(files, 2) # NotFound THEN Loop(files, 2)
             ELSE Loop(files, 3)

-----------------------------------------------------------------------------
(* The candidate list of fetch_information_table_xml *)

IsDigits(s) == s # <<>> /\ \A i \in 1..Len(s) : s[i] \in Digits

RECURSIVE StripZeros(_)
StripZeros(s) == IF Len(s) > 1 /\ Head(s) = "0" THEN StripZeros(Tail(s)) ELSE s

\* str(int(s)) for s over digits, letters and "-": the digits without their
\* leading zeros, with the sign of a negative number; ValueError otherwise
StrInt(s) ==
    IF IsDigits(s) THEN [ok |-> TRUE, str |-> StripZeros(s)]
    ELSE IF Len(s) > 1 /\ Head(s) = "-" /\ IsDigits(Tail(s))
    THEN [ok |-> TRUE,
          str |-> IF StripZeros(Tail(s)) = <<"0">> THEN <<"0">>
                  ELSE <<"-">> \o StripZeros(Tail(s))]
    ELSE [ok |-> FALSE, str |-> <<>>]

\* (mutant) the prefix candidate is appended without comparing it with the first
Candidates_NoDistinctCheck(c, acc) ==
    LET nodash == Remove(acc, "-")
        own    == StrInt(c)
        prefix == StrInt(SplitFirst(acc, "-"))
    IN  IF ~own.ok THEN [ok |-> FALSE, list |-> <<>>]
        ELSE [ok |-> TRUE,
              list |-> IF prefix.ok
                       THEN << <<own.str, nodash>>, <<prefix.str, nodash>> >>
                       ELSE << <<own.str, nodash>> >>]

\* nodash, candidates = [(str(int(cik)), nodash)], and the prefix candidate;
\* ok is FALSE when str(int(cik)) raises ValueError
Candidates(c, acc) ==
    LET nodash == Remove(acc, "-")
        own    == StrInt(c)
        prefix == StrInt(SplitFirst(acc, "-"))
    IN  IF ~own.ok THEN [ok |-> FALSE, list |-> <<>>]
        ELSE [ok |-> TRUE,
              list |-> IF prefix.ok /\ prefix.str # own.str
                       THEN << <<own.str, nodash>>, <<prefix.str, nodash>> >>
                       ELSE << <<own.str, nodash>> >>]

-----------------------------------------------------------------------------
(* index_listing_for_accession: the urls, and what it reads in a response *)

\* f".../{cik_dir}/{accession_nodash}/index.json"
JsonUrl(cd, nd) == Url(cd, nd, INDEX_JSON)

\* f".../{cik_dir}/{nd}/{nd[:10]}-{nd[10:12]}-{nd[12:]}-index.html"
IndexHtmlUrl(cd, nd) ==
    Url(cd, nd, Slice(nd, 0, 10) \o <<"-">> \o Slice(nd, 10, 12) \o <<"-">>
                \o Slice(nd, 12, Len(nd)) \o INDEX_HTML_SUFFIX)

\* f".../{cik_dir}/{nd}/"
DirUrl(cd, nd) == Url(cd, nd, <<>>)

\* (mutant) the plain directory listing comes first
HtmlCandidates_DirFirst(cd, nd) == <<DirUrl(cd, nd), IndexHtmlUrl(cd, nd)>>

\* candidates = [index html, plain directory listing]
HtmlCandidates(cd, nd) == <<IndexHtmlUrl(cd, nd), DirUrl(cd, nd)>>

\* f".../{cik_dir}/{nd}/{fname}"
DocUrl(cd, nd, f) == Url(cd, nd, f)

\* An element of directory.item: a mapping with a str under "name" ("named"),
\* with no "name" key ("noname"), with null under it ("null"), or no mapping.
Item(t, n) == [t |-> t, name |-> n]

\* j = resp.json(); items = j.get("directory", {}).get("item", []);
\* {"files": [{"name": it.get("name", "")} for it in items]}:
\* ok is FALSE when one of the three raises
JsonListing(b) ==
    IF b.json # "items" \/ \E i \in 1..Len(b.items) : b.items[i].t = "notdict"
    THEN [ok |-> FALSE, names |-> <<>>]
    ELSE [ok |-> TRUE,
          names |-> [i \in 1..Len(b.items) |->
                        CASE b.items[i].t = "named"  -> b.items[i].name
                          [] b.items[i].t = "noname" -> <<>>
                          [] b.items[i].t = "null"   -> NoneName]]

\* name = a["href"].split("/")[-1].split("?")[0]
HrefName(h) == SplitFirst(SplitLast(h, "/"), "?")

\* for a in soup.find_all("a", href=True): ... files.append({"name": name})
RECURSIVE HrefFiles(_)
HrefFiles(hrefs) ==
    IF hrefs = <<>> THEN <<>>
    ELSE LET name == HrefName(Head(hrefs))
         IN  IF name = <<>> \/ name \in {<<".">>, <<".", ".">>}
             THEN HrefFiles(Tail(hrefs))
             ELSE <<name>> \o HrefFiles(Tail(hrefs))

\* seen, uniq = set(), []; for f in files: if n not in seen: ...
Uniq(files) ==
    LET RECURSIVE Go(_, _, _)
        Go(rest, seen, uniq) ==
            IF rest = <<>> THEN uniq
            ELSE IF Head(rest) \in seen THEN Go(Tail(rest), seen, uniq)
            ELSE Go(Tail(rest), seen \cup {Head(rest)}, Append(uniq, Head(rest)))
    IN  Go(files, {}, <<>>)

\* the files an HTML page yields: <<>> when it has none (the page is passed over)
HtmlListing(b) == Uniq(HrefFiles(b.hrefs))

-----------------------------------------------------------------------------
(* What the server may answer *)

N_INFOTABLE == <<"I", "n", "f", "o", "T", "a", "b", "l", "e", ".", "x", "m", "l">>
N_README == <<"r", "e", "a", "d", "m", "e", ".", "t", "x", "t">>
H_INFOTABLE_Q == <<"/", "d", "/", "I", "n", "f", "o", "T", "a", "b", "l", "e", ".", "x", "m", "l", "?", "v">>
H_INFOTABLE == <<"/", "d", "/", "I", "n", "f", "o", "T", "a", "b", "l", "e", ".", "x", "m", "l">>
H_PARENT == <<".", ".", "/">>
H_DOTDOT == <<".", ".">>
H_SORT == <<"?", "C", "=", "N">>

JsonBodies ==
    { Body("invalid", <<>>, <<>>, "not json"),
      Body("other", <<>>, <<>>, "[]"),
      Body("items", <<>>, <<>>, "json 0"),
      Body("items", <<Item("named", N_INFOTABLE)>>, <<>>, "json 1"),
      Body("items", <<Item("null", <<>>)>>, <<>>, "json 2"),
      Body("items", <<Item("named", N_INFOTABLE), Item("notdict", <<>>)>>, <<>>, "json 3"),
      Body("items", <<Item("named", N_INFOTABLE), Item("noname", <<>>),
                      Item("named", N_INFOTABLE)>>, <<>>, "json 4") }

HtmlBodies ==
    { Body("invalid", <<>>, <<H_PARENT, H_DOTDOT, H_SORT>>, "html 0"),
      Body("invalid", <<>>, <<H_PARENT, H_INFOTABLE_Q, N_README, H_INFOTABLE>>, "html 1"),
      Body("invalid", <<>>, <<N_README>>, "html 2") }

\* the company search feed: with an identifier in it, and without
T_SEARCH_HIT == <<"a", "?", "C", "I", "K", "=", "x", "&", "C", "I", "K", "=", "1", "0", "6", "7", "9", "8", "3", "&", "C", "I", "K", "=", "5">>
T_SEARCH_MISS == <<"C", "I", "K", "=", " ", "7">>
SearchBodies ==
    { Body("invalid", <<>>, <<>>, T_SEARCH_HIT),
      Body("invalid", <<>>, <<>>, T_SEARCH_MISS) }

\* the filing history: not JSON; with a 13F-HR filing and its report date;
\* with a report date array that is too short; without a 13F-HR filing
SubmissionsBodies ==
    { Body("invalid", <<>>, <<>>, "not json"),
      Body("submissions", <<>>, <<>>, "history aligned"),
      Body("submissions", <<>>, <<>>, "history short"),
      Body("submissions", <<>>, <<>>, "history no 13F") }

DocBodies ==
    { Body("invalid", <<>>, <<>>, "xml a"),
      Body("invalid", <<>>, <<>>, "xml b") }

\* The bodies a 200 answer may carry, by the fetch that is waiting for it.
BodiesAt(p) ==
    CASE p = "json" -> JsonBodies
      [] p = "html" -> HtmlBodies
      [] p = "doc"  -> DocBodies
      [] p = "resolve" -> SearchBodies
      [] p = "load" -> SubmissionsBodies
      [] OTHER      -> {Body("invalid", <<>>, <<>>, "text")}

-----------------------------------------------------------------------------
(* fetch_information_table_xml: its values *)

\* last_err = None
NoErr == [kind |-> "None", msg |-> "", status |-> "", body |-> NoBody, url |-> NoUrl, cause |-> NoneExc]
\* HTTPError(f"Could not list files for {cik_dir}/{accession_nodash} via JSON or HTML")
CouldNotList(cd, nd) ==
    [kind |-> "HTTPError", msg |-> "Could not list files", status |-> "", body |-> NoBody,
     url |-> Url(cd, nd, <<>>), cause |-> NoneExc]
\* AttributeError: 'NoneType' object has no attribute 'lower'
AttributeError ==
    [kind |-> "AttributeError", msg |-> "no attribute lower", status |-> "", body |-> NoBody,
     url |-> NoUrl, cause |-> NoneExc]

NoFetchResult == [kind |-> "none", text |-> "", cause |-> NoErr]
Returned(text) == [kind |-> "str", text |-> text, cause |-> NoErr]
\* HTTPError(f"Could not fetch information table for accession {accession}: {last_err}")
CouldNotFetch(e) == [kind |-> "HTTPError", text |-> "", cause |-> e]
\* str(int(cik)) raised
ValueError == [kind |-> "ValueError", text |-> "", cause |-> NoErr]

\* the defaults of http_get, which every caller in fetch.py leaves in place
DefaultRetries == 3
DefaultSleepS == 5


-----------------------------------------------------------------------------
(* http_get *)

\* the call: last_exc = None, and the for loop starts (or is empty)
http_get(u, r, s) ==
    /\ h_url' = u
    /\ retries' = r
    /\ sleep_s' = s
    /\ attempt' = 1
    /\ last_exc' = NoneExc
    /\ resps' = <<>>
    /\ sleeps' = <<>>
    /\ IF r >= 1
       THEN h_pc' = "loop" /\ h_result' = NoResult
       ELSE h_pc' = "raised" /\ h_result' = GetFailed(u, NoneExc)

\* (mutant) the loop gives up one attempt early
NextIteration_OneShort(exc) ==
    IF attempt + 1 < retries
    THEN h_pc' = "loop" /\ attempt' = attempt + 1 /\ h_result' = NoResult
    ELSE h_pc' = "raised" /\ attempt' = attempt /\ h_result' = GetFailed(h_url, exc)

\* the loop's next iteration, or the raise after the loop once it is exhausted
NextIteration(exc) ==
    IF attempt < retries
    THEN h_pc' = "loop" /\ attempt' = attempt + 1 /\ h_result' = NoResult
    ELSE h_pc' = "raised" /\ attempt' = attempt /\ h_result' = GetFailed(h_url, exc)

\* (mutant) a 429 or 503 is retried in the same attempt slot
HttpRateLimited_SameSlot ==
    /\ h_pc = "loop"
    /\ \E st \in RetryAnswers :
         /\ resps' = Append(resps, st)
         /\ sleeps' = Append(sleeps, Slept("rate", Min(100, attempt * 15)))
         /\ UNCHANGED <<h_pc, attempt, last_exc, h_result>>
    /\ UNCHANGED <<mode, h_url, retries, sleep_s, pvars>>
    /\ nreq' = nreq + 1
    /\ UNCHANGED ovars

\* status 429 or 503: sleep min(10.0, attempt * 1.5), continue
HttpRateLimited ==
    /\ h_pc = "loop"
    /\ \E st \in RetryAnswers :
         /\ resps' = Append(resps, st)
         /\ sleeps' = Append(sleeps, Slept("rate", Min(100, attempt * 15)))
         /\ last_exc' = last_exc
         /\ NextIteration(last_exc)
    /\ UNCHANGED <<mode, h_url, retries, sleep_s, pvars>>
    /\ nreq' = nreq + 1
    /\ UNCHANGED ovars

\* a success status: raise_for_status passes, polite_sleep(sleep_s), return resp
HttpOk ==
    /\ h_pc = "loop"
    /\ \E b \in BodiesAt(IF pc = "idle" THEN r_pc ELSE pc) :
         /\ resps' = Append(resps, "200")
         /\ sleeps' = IF sleep_s > 0 THEN Append(sleeps, Slept("polite", sleep_s)) ELSE sleeps
         /\ h_pc' = "returned"
         /\ h_result' = Response("200", b, h_url)
    /\ UNCHANGED <<mode, h_url, retries, sleep_s, attempt, last_exc, pvars>>
    /\ nreq' = nreq + 1
    /\ UNCHANGED ovars

\* (mutant) the backoff does not grow with the attempt
Failed_FlatBackoff(r, e) ==
    /\ resps' = Append(resps, r)
    /\ last_exc' = e
    /\ IF attempt = retries
       THEN /\ sleeps' = sleeps
            /\ h_pc' = "raised"
            /\ attempt' = attempt
            /\ h_result' = GetFailed(h_url, e)
       ELSE /\ sleeps' = Append(sleeps, Slept("backoff", 10))
            /\ h_pc' = "loop"
            /\ attempt' = attempt + 1
            /\ h_result' = NoResult

\* except requests.RequestException as e: last_exc = e; break on the last
\* attempt, else sleep 1.0 * attempt and go round again
Failed(r, e) ==
    /\ resps' = Append(resps, r)
    /\ last_exc' = e
    /\ IF attempt = retries
       THEN /\ sleeps' = sleeps
            /\ h_pc' = "raised"
            /\ attempt' = attempt
            /\ h_result' = GetFailed(h_url, e)
       ELSE /\ sleeps' = Append(sleeps, Slept("backoff", 10 * attempt))
            /\ h_pc' = "loop"
            /\ attempt' = attempt + 1
            /\ h_result' = NoResult

\* requests.get raises a network-level failure (a RequestException)
HttpNetFail ==
    /\ h_pc = "loop"
    /\ \E f \in NetAnswers : Failed(f, ReqExc(f, "", attempt))
    /\ UNCHANGED <<mode, h_url, retries, sleep_s, pvars>>
    /\ nreq' = nreq + 1
    /\ UNCHANGED ovars

\* another error status: raise_for_status raises requests.HTTPError, which is
\* a RequestException and is caught by the same except clause
HttpErrorStatus ==
    /\ h_pc = "loop"
    /\ \E st \in ErrorAnswers : Failed(st, ReqExc("requests.HTTPError", st, attempt))
    /\ UNCHANGED <<mode, h_url, retries, sleep_s, pvars>>
    /\ nreq' = nreq + 1
    /\ UNCHANGED ovars

-----------------------------------------------------------------------------
(* A caller that calls http_get directly, with any retries and sleep_s *)

SleepChoices == {0, 5}

\* no call of http_get has been made
HttpIdle ==
    /\ h_pc = "idle"
    /\ h_url = NoUrl
    /\ retries = 0
    /\ sleep_s = 0
    /\ attempt = 0
    /\ last_exc = NoneExc
    /\ h_result = NoResult
    /\ resps = <<>>
    /\ sleeps = <<>>

\* no call of fetch_information_table_xml has been made
FetchIdle ==
    /\ pc = "idle"
    /\ cik = <<>>
    /\ accession = <<>>
    /\ candidates = <<>>
    /\ ci = 0
    /\ last_err = NoErr
    /\ fname = NotFound
    /\ listing = <<>>
    /\ f_result = NoFetchResult
    /\ hi = 0
    /\ l_res = "none"
    /\ l_steps = <<>>
    /\ tried = <<>>
    /\ log = <<>>

\* run: its values before it is called
RunArgs(m, c, fm, out, sj) ==
    [manager |-> m, cik |-> c, filing_month |-> fm, out_csv |-> out, summary_json |-> sj]
NoArgs == RunArgs(NoneName, NoneName, NoneName, "", "None")
Submissions(ok, name, recent, rd) ==
    [ok |-> ok, name |-> name, recent |-> recent, reportDate |-> rd]
NoSubmissions ==
    Submissions(FALSE, "", [form |-> <<>>, accessionNumber |-> <<>>, filingDate |-> <<>>], <<>>)
NoFiling == [kind |-> "None", accession |-> "", filingDate |-> <<>>]
Ended(kind, msg) == [kind |-> kind, msg |-> msg]
NotEnded == Ended("none", "")

\* nothing else has been called
NoArg == [fn |-> "none", val |-> <<>>]
NoRet == [fn |-> "none", val |-> <<>>]
RunIdle ==
    /\ r_pc = "idle"
    /\ r_args = NoArgs
    /\ raw_cik = NoneName
    /\ submissions = NoSubmissions
    /\ latest = NoFiling
    /\ period_end = ""
    /\ rows = <<>>
    /\ fs = <<>>
    /\ stages = <<>>
    /\ r_exit = NotEnded
OtherIdle ==
    /\ nreq = 0
    /\ arg = NoArg
    /\ ret = NoRet
    /\ RunIdle

InitHttp ==
    /\ mode = "http"
    /\ HttpIdle
    /\ FetchIdle
    /\ OtherIdle

DirectCall ==
    /\ mode = "http"
    /\ h_pc = "idle"
    /\ \E r \in 0..MaxRetries, s \in SleepChoices : http_get(TestUrl, r, s)
    /\ UNCHANGED <<mode, pvars>>
    /\ UNCHANGED <<nreq, ovars>>

NextHttp ==
    \/ DirectCall
    \/ HttpRateLimited
    \/ HttpOk
    \/ HttpNetFail
    \/ HttpErrorStatus

SpecHttp == InitHttp /\ [][NextHttp]_vars

-----------------------------------------------------------------------------
(* A caller that gives http_get a retry budget large enough for the
   rate-limit delay attempt * 1.5 to reach its ceiling of 10.0 s *)

MaxBudget == 7

InitRate ==
    /\ mode = "rate"
    /\ HttpIdle
    /\ FetchIdle
    /\ OtherIdle

BudgetCall ==
    /\ mode = "rate"
    /\ h_pc = "idle"
    /\ \E r \in 0..MaxBudget, s \in SleepChoices : http_get(TestUrl, r, s)
    /\ UNCHANGED <<mode, pvars>>
    /\ UNCHANGED <<nreq, ovars>>

NextRate ==
    \/ BudgetCall
    \/ HttpRateLimited
    \/ HttpOk
    \/ HttpNetFail
    \/ HttpErrorStatus

SpecRate == InitRate /\ [][NextRate]_vars

-----------------------------------------------------------------------------
(* fetch_information_table_xml, with index_listing_for_accession inside it *)

CIK_MANAGER == <<"1", "0", "6", "7", "9", "8", "3">>
CIK_PADDED_FILER == <<"0", "0", "0", "0", "9", "5", "0", "1", "2", "3">>
CIK_NOT_A_NUMBER == <<"1", "2", "x">>
ACCESSION == <<"0", "0", "0", "0", "9", "5", "0", "1", "2", "3", "-", "2", "4", "-", "0", "0", "1", "2", "3", "4">>

FetchCiks == {CIK_MANAGER, CIK_PADDED_FILER, CIK_NOT_A_NUMBER}
FetchAccessions == {ACCESSION}

\* http_get(url, user_agent=user_agent): retries and sleep_s keep their defaults
Request(u) ==
    /\ http_get(u, DefaultRetries, DefaultSleepS)
    /\ log' = Append(log, u)

\* http_get has returned or raised into its caller: its frame is gone
HttpDone == h_pc \in {"returned", "raised"}
HttpReturn ==
    /\ h_pc' = "idle"
    /\ h_url' = NoUrl
    /\ retries' = 0
    /\ sleep_s' = 0
    /\ attempt' = 0
    /\ last_exc' = NoneExc
    /\ h_result' = NoResult
    /\ resps' = <<>>
    /\ sleeps' = <<>>

\* history: one fetch of index_listing_for_accession, and one candidate tried
Step(r) == [url |-> r.url, raised |-> (r.kind = "HTTPError"), body |-> r.body]
Tried(o, e, u, t) == [outcome |-> o, exc |-> e, url |-> u, text |-> t]

CikDir == candidates[ci][1]
Nd == candidates[ci][2]

\* the call: nodash, candidates, last_err = None
fetch_information_table_xml(c, a) ==
    /\ cik' = c
    /\ accession' = a
    /\ candidates' = Candidates(c, a).list
    /\ IF Candidates(c, a).ok
       THEN pc' = "for" /\ f_result' = f_result
       ELSE pc' = "raised" /\ f_result' = ValueError
    /\ last_err' = NoErr
    /\ UNCHANGED <<ci, fname, listing, hi, l_res, l_steps, tried, log>>

FetchCall ==
    /\ mode = "fetch"
    /\ pc = "idle"
    /\ \E c \in FetchCiks, a \in FetchAccessions : fetch_information_table_xml(c, a)
    /\ UNCHANGED <<mode, hvars>>
    /\ UNCHANGED <<nreq, ovars>>

\* for cik_dir, nd in candidates: the next candidate; index_listing_for_accession
\* is called and asks for the JSON index
NextCandidate ==
    /\ pc = "for"
    /\ ci < Len(candidates)
    /\ ci' = ci + 1
    /\ hi' = 0
    /\ l_res' = "none"
    /\ l_steps' = <<>>
    /\ Request(JsonUrl(candidates[ci + 1][1], candidates[ci + 1][2]))
    /\ pc' = "json"
    /\ UNCHANGED <<mode, cik, accession, candidates, last_err, fname, listing, f_result, tried>>
    /\ UNCHANGED <<nreq, ovars>>

\* the loop is over: raise HTTPError(... {last_err})
Exhausted ==
    /\ pc = "for"
    /\ ci >= Len(candidates)
    /\ pc' = "raised"
    /\ f_result' = CouldNotFetch(last_err)
    /\ UNCHANGED <<mode, hvars, cik, accession, candidates, ci, last_err, fname, listing,
                   hi, l_res, l_steps, tried, log>>
    /\ UNCHANGED <<nreq, ovars>>

\* except Exception as e: last_err = e; continue
CandidateRaised(o, e) ==
    /\ last_err' = e
    /\ tried' = Append(tried, Tried(o, e, NoUrl, ""))
    /\ pc' = "for"
    /\ HttpReturn
    /\ UNCHANGED <<f_result, log>>

\* (mutant) a candidate without a file name clears last_err
Selected_NotFoundClears(names) ==
    /\ l_res' = "returned"
    /\ listing' = names
    /\ LET r == find_information_table_filename(names)
       IN  CASE r.kind = "AttributeError" ->
                  /\ fname' = fname
                  /\ CandidateRaised("select_raised", AttributeError)
             [] r.kind = "None" ->
                  /\ fname' = r
                  /\ last_err' = NoErr
                  /\ tried' = Append(tried, Tried("not_found", NoErr, NoUrl, ""))
                  /\ pc' = "for"
                  /\ HttpReturn
                  /\ UNCHANGED <<f_result, log>>
             [] r.kind = "str" ->
                  /\ fname' = r
                  /\ Request(DocUrl(CikDir, Nd, r.name))
                  /\ pc' = "doc"
                  /\ UNCHANGED <<last_err, tried, f_result>>

\* index_listing_for_accession returns the listing; fname = find_...(listing);
\* if not fname: continue; else the document is asked for
Selected(names) ==
    /\ l_res' = "returned"
    /\ listing' = names
    /\ LET r == find_information_table_filename(names)
       IN  CASE r.kind = "AttributeError" ->
                  /\ fname' = fname
                  /\ CandidateRaised("select_raised", AttributeError)
             [] r.kind = "None" ->
                  /\ fname' = r
                  /\ last_err' = last_err
                  /\ tried' = Append(tried, Tried("not_found", NoErr, NoUrl, ""))
                  /\ pc' = "for"
                  /\ HttpReturn
                  /\ UNCHANGED <<f_result, log>>
             [] r.kind = "str" ->
                  /\ fname' = r
                  /\ Request(DocUrl(CikDir, Nd, r.name))
                  /\ pc' = "doc"
                  /\ UNCHANGED <<last_err, tried, f_result>>

\* the JSON index was fetched and read: return {"files": [...]}
JsonListed ==
    /\ pc = "json"
    /\ h_pc = "returned"
    /\ JsonListing(h_result.body).ok
    /\ l_steps' = Append(l_steps, Step(h_result))
    /\ Selected(JsonListing(h_result.body).names)
    /\ UNCHANGED <<mode, cik, accession, candidates, ci, hi>>
    /\ UNCHANGED <<nreq, ovars>>

\* (mutant) the HTML pages are asked for whatever the JSON step gave
JsonFailed_Always ==
    /\ pc = "json"
    /\ HttpDone
    /\ l_steps' = Append(l_steps, Step(h_result))
    /\ hi' = 1
    /\ Request(HtmlCandidates(CikDir, Nd)[1])
    /\ pc' = "html"
    /\ UNCHANGED <<mode, cik, accession, candidates, ci, last_err, fname, listing, f_result,
                   l_res, tried>>
    /\ UNCHANGED <<nreq, ovars>>

\* except Exception: pass; the first HTML candidate is asked for
JsonFailed ==
    /\ pc = "json"
    /\ HttpDone
    /\ (h_pc = "raised" \/ ~JsonListing(h_result.body).ok)
    /\ l_steps' = Append(l_steps, Step(h_result))
    /\ hi' = 1
    /\ Request(HtmlCandidates(CikDir, Nd)[1])
    /\ pc' = "html"
    /\ UNCHANGED <<mode, cik, accession, candidates, ci, last_err, fname, listing, f_result,
                   l_res, tried>>
    /\ UNCHANGED <<nreq, ovars>>

\* the page has files: return {"files": uniq}
HtmlListed ==
    /\ pc = "html"
    /\ h_pc = "returned"
    /\ HrefFiles(h_result.body.hrefs) # <<>>
    /\ l_steps' = Append(l_steps, Step(h_result))
    /\ Selected(HtmlListing(h_result.body))
    /\ UNCHANGED <<mode, cik, accession, candidates, ci, hi>>
    /\ UNCHANGED <<nreq, ovars>>

HtmlNoFiles == h_pc = "raised" \/ (h_pc = "returned" /\ HrefFiles(h_result.body.hrefs) = <<>>)

\* (mutant) the same HTML candidate is asked for again
HtmlNext_SamePage ==
    /\ pc = "html"
    /\ HtmlNoFiles
    /\ hi < Len(HtmlCandidates(CikDir, Nd))
    /\ l_steps' = l_steps
    /\ hi' = hi
    /\ Request(HtmlCandidates(CikDir, Nd)[hi])
    /\ UNCHANGED <<mode, pc, cik, accession, candidates, ci, last_err, fname, listing,
                   f_result, l_res, tried>>
    /\ UNCHANGED <<nreq, ovars>>

\* the page failed or has no files: the next HTML candidate is asked for
HtmlNext ==
    /\ pc = "html"
    /\ HtmlNoFiles
    /\ hi < Len(HtmlCandidates(CikDir, Nd))
    /\ l_steps' = Append(l_steps, Step(h_result))
    /\ hi' = hi + 1
    /\ Request(HtmlCandidates(CikDir, Nd)[hi + 1])
    /\ UNCHANGED <<mode, pc, cik, accession, candidates, ci, last_err, fname, listing,
                   f_result, l_res, tried>>
    /\ UNCHANGED <<nreq, ovars>>

\* (mutant) the lookup error is raised after the first HTML page
ListingRaised_AfterFirstPage ==
    /\ pc = "html"
    /\ HtmlNoFiles
    /\ hi >= 1
    /\ l_steps' = Append(l_steps, Step(h_result))
    /\ l_res' = "raised"
    /\ CandidateRaised("listing_raised", CouldNotList(CikDir, Nd))
    /\ UNCHANGED <<mode, cik, accession, candidates, ci, fname, listing, hi>>
    /\ UNCHANGED <<nreq, ovars>>

\* (mutant) a directory that cannot be listed ends the whole call
ListingRaised_Aborts ==
    /\ pc = "html"
    /\ HtmlNoFiles
    /\ hi >= Len(HtmlCandidates(CikDir, Nd))
    /\ l_steps' = Append(l_steps, Step(h_result))
    /\ l_res' = "raised"
    /\ last_err' = CouldNotList(CikDir, Nd)
    /\ tried' = Append(tried, Tried("listing_raised", CouldNotList(CikDir, Nd), NoUrl, ""))
    /\ pc' = "raised"
    /\ f_result' = CouldNotFetch(CouldNotList(CikDir, Nd))
    /\ HttpReturn
    /\ UNCHANGED <<mode, cik, accession, candidates, ci, fname, listing, hi, log>>
    /\ UNCHANGED <<nreq, ovars>>

\* no HTML candidate is left: raise HTTPError("Could not list files ..."),
\* which fetch_information_table_xml catches
ListingRaised ==
    /\ pc = "html"
    /\ HtmlNoFiles
    /\ hi >= Len(HtmlCandidates(CikDir, Nd))
    /\ l_steps' = Append(l_steps, Step(h_result))
    /\ l_res' = "raised"
    /\ CandidateRaised("listing_raised", CouldNotList(CikDir, Nd))
    /\ UNCHANGED <<mode, cik, accession, candidates, ci, fname, listing, hi>>
    /\ UNCHANGED <<nreq, ovars>>

\* return http_get(url, user_agent=user_agent).text
DocReturned ==
    /\ pc = "doc"
    /\ h_pc = "returned"
    /\ pc' = "returned"
    /\ f_result' = Returned(h_result.body.text)
    /\ tried' = Append(tried, Tried("fetched", NoErr, h_result.url, h_result.body.text))
    /\ HttpReturn
    /\ UNCHANGED <<mode, cik, accession, candidates, ci, last_err, fname, listing,
                   hi, l_res, l_steps, log>>
    /\ UNCHANGED <<nreq, ovars>>

\* the fetch of the document raised: last_err = e; continue
DocRaised ==
    /\ pc = "doc"
    /\ h_pc = "raised"
    /\ CandidateRaised("fetch_raised", h_result)
    /\ UNCHANGED <<mode, cik, accession, candidates, ci, fname, listing, hi, l_res, l_steps>>
    /\ UNCHANGED <<nreq, ovars>>

Init ==
    /\ mode = "fetch"
    /\ HttpIdle
    /\ FetchIdle
    /\ OtherIdle

Next ==
    \/ FetchCall
    \/ NextCandidate
    \/ Exhausted
    \/ JsonListed
    \/ JsonFailed
    \/ HtmlListed
    \/ HtmlNext
    \/ ListingRaised
    \/ DocReturned
    \/ DocRaised
    \/ HttpRateLimited
    \/ HttpOk
    \/ HttpNetFail
    \/ HttpErrorStatus

Spec == Init /\ [][Next]_vars

-----------------------------------------------------------------------------
(* find_information_table_filename on its own, applied to any listing *)

MaxListing == 3

N_FORM13F == <<"F", "o", "r", "m", "1", "3", "f", "I", "n", "f", "o", ".", "X", "M", "L">>
N_OTHER == <<"b", ".", "x", "m", "l">>
N_OTHER_UPPER == <<"A", ".", "X", "M", "L">>
N_PRIMARY_UPPER == <<"P", "r", "i", "m", "a", "r", "y", "_", "D", "o", "c", ".", "X", "M", "L">>
N_INFO_TXT == <<"i", "n", "f", "o", "t", "a", "b", "l", "e", ".", "t", "x", "t">>

ListingNames ==
    { N_INFOTABLE, N_FORM13F, N_OTHER, N_OTHER_UPPER, PRIMARY_DOC_XML, N_PRIMARY_UPPER,
      N_README, N_INFO_TXT, <<>>, NoneName }

SeqsUpTo(A, n) == UNION {[1..k -> A] : k \in 0..n}

InitSelect ==
    /\ mode = "select"
    /\ HttpIdle
    /\ pc = "idle"
    /\ cik = <<>>
    /\ accession = <<>>
    /\ candidates = <<>>
    /\ ci = 0
    /\ last_err = NoErr
    /\ fname = NotFound
    /\ listing \in SeqsUpTo(ListingNames, MaxListing)
    /\ f_result = NoFetchResult
    /\ hi = 0
    /\ l_res = "none"
    /\ l_steps = <<>>
    /\ tried = <<>>
    /\ log = <<>>
    /\ OtherIdle

\* fname = find_information_table_filename(listing)
ApplySelect ==
    /\ mode = "select"
    /\ pc = "idle"
    /\ fname' = find_information_table_filename(listing)
    /\ pc' = "selected"
    /\ UNCHANGED <<mode, hvars, cik, accession, candidates, ci, last_err, listing, f_result,
                   hi, l_res, l_steps, tried, log>>
    /\ UNCHANGED <<nreq, ovars>>

NextSelect == ApplySelect

SpecSelect == InitSelect /\ [][NextSelect]_vars

-----------------------------------------------------------------------------
(* The candidate list on its own, built for any cik and accession *)

MaxCikLen == 2
MaxAccLen == 3

IdChars == {"0", "1", "-", "x"}

CandCiks == SeqsUpTo(IdChars, MaxCikLen) \cup FetchCiks
CandAccessions == SeqsUpTo(IdChars, MaxAccLen) \cup FetchAccessions

InitCand ==
    /\ mode = "cand"
    /\ HttpIdle
    /\ pc = "idle"
    /\ cik \in CandCiks
    /\ accession \in CandAccessions
    /\ candidates = <<>>
    /\ ci = 0
    /\ last_err = NoErr
    /\ fname = NotFound
    /\ listing = <<>>
    /\ f_result = NoFetchResult
    /\ hi = 0
    /\ l_res = "none"
    /\ l_steps = <<>>
    /\ tried = <<>>
    /\ log = <<>>
    /\ OtherIdle

\* lines 186-194 of fetch_information_table_xml
BuildCandidates ==
    /\ mode = "cand"
    /\ pc = "idle"
    /\ candidates' = Candidates(cik, accession).list
    /\ IF Candidates(cik, accession).ok
       THEN pc' = "for" /\ f_result' = f_result
       ELSE pc' = "raised" /\ f_result' = ValueError
    /\ UNCHANGED <<mode, hvars, cik, accession, ci, last_err, fname, listing,
                   hi, l_res, l_steps, tried, log>>
    /\ UNCHANGED <<nreq, ovars>>

NextCand == BuildCandidates

SpecCand == InitCand /\ [][NextCand]_vars

-----------------------------------------------------------------------------
(* latest_13f_accession, called on its own on a filing history *)

MaxFilings == 3

\* filing_month=None
NoneMonth == <<"None">>

FORM_13F_HR == "13F-HR"
FormTypes == {"10-K", FORM_13F_HR, "13F-HR/A"}
D_2024_01_10 == <<"2", "0", "2", "4", "-", "0", "1", "-", "1", "0">>
D_2024_02_14 == <<"2", "0", "2", "4", "-", "0", "2", "-", "1", "4">>
D_2023_11_10 == <<"2", "0", "2", "3", "-", "1", "1", "-", "1", "0">>
FilingDates == {D_2024_01_10, D_2024_02_14, D_2023_11_10}
M_2023_11 == <<"2", "0", "2", "3", "-", "1", "1">>
M_2025_01 == <<"2", "0", "2", "5", "-", "0", "1">>
FilingMonths == {NoneMonth, <<>>, M_2023_11, M_2025_01}

\* the accession numbers of a history of n filings
ACCESSION_NUMBERS == <<"A", "B", "C", "D">>
Accessions(n) == SubSeq(ACCESSION_NUMBERS, 1, n)

\* submissions["filings"]["recent"] with its three parallel arrays
Recent(forms, accs, dates) ==
    [form |-> forms, accessionNumber |-> accs, filingDate |-> dates]

\* what latest_13f_accession returns
Filing(acc, dt) == [kind |-> "dict", accession |-> acc, filingDate |-> dt]

\* zip(forms, accs, dates) stops at the shortest of the three
ZipLen(recent) ==
    Min(Len(recent.form), Min(Len(recent.accessionNumber), Len(recent.filingDate)))

\* dt.startswith(filing_month)
StartsWith(dt, prefix) ==
    /\ Len(prefix) <= Len(dt)
    /\ SubSeq(dt, 1, Len(prefix)) = prefix

\* `if filing_month`: None and "" are false
Truthy(fm) == fm # NoneMonth /\ fm # <<>>

\* (mutant) the first 13F-HR entry is returned whatever its date
Scan_IgnoresMonth(recent, fm, i) ==
    LET hits == {k \in i..ZipLen(recent) : recent.form[k] = FORM_13F_HR}
    IN  IF hits = {}
        THEN NoFiling
        ELSE LET k == CHOOSE k \in hits : \A j \in hits : k <= j
             IN  Filing(recent.accessionNumber[k], recent.filingDate[k])

\* the for loop from position i on
RECURSIVE Scan(_, _, _)
Scan(recent, fm, i) ==
    IF i > ZipLen(recent)
    THEN NoFiling
    ELSE IF recent.form[i] # FORM_13F_HR
         THEN Scan(recent, fm, i + 1)
         ELSE IF Truthy(fm) /\ ~StartsWith(recent.filingDate[i], fm)
              THEN Scan(recent, fm, i + 1)
              ELSE Filing(recent.accessionNumber[i], recent.filingDate[i])

latest_13f_accession(recent, fm) == Scan(recent, fm, 1)

LatestArg(recent, fm) ==
    [fn |-> "latest_13f_accession", val |-> [recent |-> recent, filing_month |-> fm]]

InitLatest ==
    /\ mode = "latest"
    /\ HttpIdle
    /\ FetchIdle
    /\ nreq = 0
    /\ RunIdle
    /\ ret = NoRet
    /\ \E forms \in SeqsUpTo(FormTypes, MaxFilings),
          n \in 0..MaxFilings,
          dates \in SeqsUpTo(FilingDates, MaxFilings),
          fm \in FilingMonths :
            arg = LatestArg(Recent(forms, Accessions(n), dates), fm)

ApplyLatest ==
    /\ mode = "latest"
    /\ ret = NoRet
    /\ ret' = [fn |-> "latest_13f_accession",
               val |-> latest_13f_accession(arg.val.recent, arg.val.filing_month)]
    /\ UNCHANGED <<mode, hvars, pvars, nreq, arg, rvars>>

NextLatest == ApplyLatest

SpecLatest == InitLatest /\ [][NextLatest]_vars

-----------------------------------------------------------------------------
(* pad_cik, called on its own on an identifier string *)

MaxIdLen == 3

PAD_WIDTH == 10
Signs == {"+", "-"}

Zeros(n) == [i \in 1..n |-> "0"]

\* (mutant) the result is cut to the width
ZFill_Cuts(s, width) ==
    IF Len(s) >= width
    THEN SubSeq(s, Len(s) - width + 1, Len(s))
    ELSE Zeros(width - Len(s)) \o s

\* str.zfill(width): a string of at least the width is returned as it is; else
\* zeros are put on the left, after a leading sign if there is one
ZFill(s, width) ==
    IF Len(s) >= width
    THEN s
    ELSE IF s # <<>> /\ Head(s) \in Signs
         THEN <<Head(s)>> \o Zeros(width - Len(s)) \o Tail(s)
         ELSE Zeros(width - Len(s)) \o s

pad_cik(c) == ZFill(c, PAD_WIDTH)

\* the identifier strings: short ones of any characters, alone or followed by
\* the digits of a real identifier, which makes strings of 7 to 14 characters
PadChars == {"0", "7", "-", "x"}
DIGITS_11 == <<"1", "2", "3", "4", "5", "6", "7", "8", "9", "0", "1">>
PadTails == {<<>>, CIK_MANAGER, CIK_PADDED_FILER, DIGITS_11}
PadCiks == {h \o t : h \in SeqsUpTo(PadChars, MaxIdLen), t \in PadTails}

InitPad ==
    /\ mode = "pad"
    /\ HttpIdle
    /\ FetchIdle
    /\ nreq = 0
    /\ RunIdle
    /\ ret = NoRet
    /\ \E c \in PadCiks : arg = [fn |-> "pad_cik", val |-> c]

ApplyPad ==
    /\ mode = "pad"
    /\ ret = NoRet
    /\ ret' = [fn |-> "pad_cik", val |-> pad_cik(arg.val)]
    /\ UNCHANGED <<mode, hvars, pvars, nreq, arg, rvars>>

NextPad == ApplyPad

SpecPad == InitPad /\ [][NextPad]_vars

-----------------------------------------------------------------------------
(* summarize_rows, called on its own on a list of rows.  Amounts in billions
   are kept in thousandths (round(x, 3)), ratios in ten-thousandths
   (round(x, 4)). *)

MaxRows == 3

TOP_N == 10

\* a row of the information table: issuer_name is the row's own name
Row(name, v) == [issuer_name |-> name, value_usd_thousands |-> v]

RowValues == {0, 400, 1000, 9000}

\* nine more values, which make lists of more than ten rows
NINE_VALUES == <<1000, 400, 9000, 1000, 0, 400, 9000, 1000, 400>>

RowLists ==
    {[i \in 1..Len(vs) |-> Row(i, vs[i])] :
        vs \in {h \o t : h \in SeqsUpTo(RowValues, MaxRows), t \in {<<>>, NINE_VALUES}}}

\* sum(r.get("value_usd_thousands", 0) for r in rs)
RECURSIVE SumValues(_)
SumValues(rs) ==
    IF rs = <<>> THEN 0 ELSE Head(rs).value_usd_thousands + SumValues(Tail(rs))

\* round(a / b, ndigits) in units of 10^-ndigits, a and b already scaled:
\* the nearest integer to a / b, the even one of two equally near
RoundDiv(a, b) ==
    LET q == a \div b
        r == a % b
    IN  IF 2 * r < b THEN q
        ELSE IF 2 * r > b THEN q + 1
        ELSE IF q % 2 = 0 THEN q ELSE q + 1

\* (mutant) the rows are left in the order given
Sorted_AsGiven(rs) == rs

\* sorted(rows, key=value, reverse=True): the sort is stable, so rows of equal
\* value keep their order
Sorted(rs) ==
    LET before(i) == {j \in 1..Len(rs) :
                        \/ rs[j].value_usd_thousands > rs[i].value_usd_thousands
                        \/ /\ rs[j].value_usd_thousands = rs[i].value_usd_thousands
                           /\ j < i}
    IN  [k \in 1..Len(rs) |-> rs[CHOOSE i \in 1..Len(rs) : Cardinality(before(i)) = k - 1]]

Position(r, total) ==
    [issuer |-> r.issuer_name,
     value_b |-> RoundDiv(r.value_usd_thousands, 1000),
     weight |-> IF total # 0 THEN RoundDiv(10000 * r.value_usd_thousands, total) ELSE 0]

summarize_rows(rs) ==
    LET total == SumValues(rs)
        rows_sorted == Sorted(rs)
        top10 == SubSeq(rows_sorted, 1, Min(TOP_N, Len(rows_sorted)))
        top10_sum == SumValues(top10)
    IN  [num_positions |-> Len(rs),
         sum_value_usd_b |-> RoundDiv(total, 1000),
         top_10_concentration |->
             IF total # 0 THEN RoundDiv(10000 * top10_sum, total) ELSE 0,
         top_positions |-> [k \in 1..Len(top10) |-> Position(top10[k], total)]]

InitSummary ==
    /\ mode = "summary"
    /\ HttpIdle
    /\ FetchIdle
    /\ nreq = 0
    /\ RunIdle
    /\ ret = NoRet
    /\ \E rs \in RowLists : arg = [fn |-> "summarize_rows", val |-> rs]

ApplySummary ==
    /\ mode = "summary"
    /\ ret = NoRet
    /\ ret' = [fn |-> "summarize_rows", val |-> summarize_rows(arg.val)]
    /\ UNCHANGED <<mode, hvars, pvars, nreq, arg, rvars>>

NextSummary == ApplySummary

SpecSummary == InitSummary /\ [][NextSummary]_vars

-----------------------------------------------------------------------------
(* run: from its arguments to the files it writes *)

fvars == <<pc, cik, accession, candidates, ci, last_err, fname, listing, f_result,
           hi, l_res, l_steps, tried>>

MANAGER == <<"B", "e", "r", "k", "s", "h", "i", "r", "e">>
OUT_CSV == "out.csv"
SUMMARY_JSON == "summary.json"

RunArgChoices ==
    {RunArgs(m, c, fm, OUT_CSV, sj) :
        m \in {NoneName, MANAGER}, c \in {NoneName, CIK_MANAGER},
        fm \in {NoneMonth, M_2025_01}, sj \in {"None", SUMMARY_JSON}}

\* the urls of the company search and of the filing history
BROWSE_EDGAR == <<"browse-edgar">>
SUBMISSIONS == <<"submissions">>
CIK_PREFIX == <<"C", "I", "K">>
DOT_JSON == <<".", "j", "s", "o", "n">>
SearchUrl(name) == Url(BROWSE_EDGAR, name, <<>>)
SubmissionsUrl(c) == Url(SUBMISSIONS, <<>>, CIK_PREFIX \o pad_cik(c) \o DOT_JSON)

\* re.search(r"CIK=(\d{1,10})", text): the first place where CIK= is followed
\* by a digit, and the digits from there, ten at most; None without one
CIK_EQ == <<"C", "I", "K", "=">>
ReSearchCik(text) ==
    LET hits == {i \in 1..Len(text) :
                    /\ i + 4 <= Len(text)
                    /\ SubSeq(text, i, i + 3) = CIK_EQ
                    /\ text[i + 4] \in Digits}
    IN  IF hits = {}
        THEN NoneName
        ELSE LET i == CHOOSE i \in hits : \A j \in hits : i <= j
                 runs == {n \in 1..10 :
                             /\ i + 3 + n <= Len(text)
                             /\ \A k \in 1..n : text[i + 3 + k] \in Digits}
                 n == CHOOSE n \in runs : \A m \in runs : m <= n
             IN  SubSeq(text, i + 4, i + 3 + n)

\* resp.json() of the filing history
ACCESSION_10K == <<"0", "0", "0", "0", "9", "5", "0", "1", "2", "3", "-", "2", "4", "-", "0", "0", "0", "9", "9", "9">>
NO_REPORT_DATE == <<"absent">>
SubmissionsJson(b) ==
    CASE b.text = "history aligned" ->
           Submissions(TRUE, "BERKSHIRE",
                       Recent(<<"10-K", "13F-HR">>, <<ACCESSION_10K, ACCESSION>>,
                              <<D_2024_02_14, D_2024_01_10>>),
                       <<"2023-12-31", "2023-09-30">>)
      [] b.text = "history short" ->
           Submissions(TRUE, "BERKSHIRE",
                       Recent(<<"10-K", "13F-HR">>, <<ACCESSION_10K, ACCESSION>>,
                              <<D_2024_02_14, D_2024_01_10>>),
                       <<"2023-12-31">>)
      [] b.text = "history no 13F" ->
           Submissions(TRUE, "BERKSHIRE",
                       Recent(<<"10-K">>, <<ACCESSION_10K>>, <<D_2024_02_14>>),
                       NO_REPORT_DATE)
      [] OTHER -> NoSubmissions

\* period_end: the report date at the accession's index; an index past the
\* end of the array raises IndexError
PeriodEnd(sub, acc) ==
    IF sub.reportDate = NO_REPORT_DATE
    THEN [ok |-> TRUE, val |-> ""]
    ELSE LET idx == CHOOSE i \in 1..Len(sub.recent.accessionNumber) :
                       /\ sub.recent.accessionNumber[i] = acc
                       /\ \A j \in 1..(i - 1) : sub.recent.accessionNumber[j] # acc
         IN  IF idx <= Len(sub.reportDate)
             THEN [ok |-> TRUE, val |-> sub.reportDate[idx]]
             ELSE [ok |-> FALSE, val |-> ""]

\* iter_info_table_rows: the rows of a document, or ValueError("Invalid XML")
iter_info_table_rows(text) ==
    IF text = "xml a"
    THEN [ok |-> TRUE, rows |-> <<Row(1, 9000), Row(2, 1000)>>]
    ELSE [ok |-> FALSE, rows |-> <<>>]

\* a file as written
File(path, content) == [path |-> path, content |-> content]

Stage(stage, out) == [stage |-> stage, out |-> out]

\* run ends: SystemExit, an exception that nothing catches, or its return
End(kind, msg) ==
    /\ r_pc' = "ended"
    /\ r_exit' = Ended(kind, msg)

InitRun ==
    /\ mode = "run"
    /\ HttpIdle
    /\ FetchIdle
    /\ OtherIdle

\* run is called: the two checks of its arguments, then the first fetch
RunCall ==
    /\ mode = "run"
    /\ r_pc = "idle"
    /\ \E a \in RunArgChoices :
         /\ r_args' = a
         /\ raw_cik' = a.cik
         /\ CASE a.manager = NoneName /\ a.cik = NoneName ->
                  /\ End("SystemExit", "Provide either --manager or --cik")
                  /\ UNCHANGED <<hvars, log>>
             [] a.manager # NoneName /\ a.cik # NoneName ->
                  /\ End("SystemExit", "Provide only one of --manager or --cik, not both")
                  /\ UNCHANGED <<hvars, log>>
             [] a.manager # NoneName /\ a.cik = NoneName ->
                  /\ r_pc' = "resolve"
                  /\ Request(SearchUrl(a.manager))
                  /\ r_exit' = r_exit
             [] OTHER ->
                  /\ r_pc' = "load"
                  /\ Request(SubmissionsUrl(a.cik))
                  /\ r_exit' = r_exit
    /\ UNCHANGED <<mode, fvars, nreq, arg, ret>>
    /\ UNCHANGED <<submissions, latest, period_end, rows, fs, stages>>

\* resolve_cik_from_manager_name: http_get raised, and nothing catches it
ResolveRaised ==
    /\ r_pc = "resolve"
    /\ h_pc = "raised"
    /\ stages' = Append(stages, Stage("resolve", "raised"))
    /\ End("HTTPError", h_result.msg)
    /\ HttpReturn
    /\ UNCHANGED <<mode, pvars, nreq, arg, ret>>
    /\ UNCHANGED <<r_args, raw_cik, submissions, latest, period_end, rows, fs>>

\* it returned None: raise SystemExit("Could not resolve CIK ...")
ResolveNotFound ==
    /\ r_pc = "resolve"
    /\ h_pc = "returned"
    /\ ReSearchCik(h_result.body.text) = NoneName
    /\ stages' = Append(stages, Stage("resolve", "not_found"))
    /\ raw_cik' = NoneName
    /\ End("SystemExit", "Could not resolve CIK for manager")
    /\ HttpReturn
    /\ UNCHANGED <<mode, pvars, nreq, arg, ret>>
    /\ UNCHANGED <<r_args, submissions, latest, period_end, rows, fs>>

\* it returned an identifier: load_submissions_json asks for the history
ResolveFound ==
    /\ r_pc = "resolve"
    /\ h_pc = "returned"
    /\ ReSearchCik(h_result.body.text) # NoneName
    /\ stages' = Append(stages, Stage("resolve", "found"))
    /\ raw_cik' = ReSearchCik(h_result.body.text)
    /\ r_pc' = "load"
    /\ Request(SubmissionsUrl(ReSearchCik(h_result.body.text)))
    /\ UNCHANGED <<mode, fvars, nreq, arg, ret>>
    /\ UNCHANGED <<r_args, submissions, latest, period_end, rows, fs, r_exit>>

\* load_submissions_json: http_get raised or the body is not JSON
LoadRaised ==
    /\ r_pc = "load"
    /\ HttpDone
    /\ h_pc = "raised" \/ ~SubmissionsJson(h_result.body).ok
    /\ stages' = Append(stages, Stage("load", "raised"))
    /\ IF h_pc = "raised"
       THEN End("HTTPError", h_result.msg)
       ELSE End("JSONDecodeError", "")
    /\ HttpReturn
    /\ UNCHANGED <<mode, pvars, nreq, arg, ret>>
    /\ UNCHANGED <<r_args, raw_cik, submissions, latest, period_end, rows, fs>>

\* latest_13f_accession returned None: raise SystemExit("No 13F-HR ...")
LoadNoFiling ==
    /\ r_pc = "load"
    /\ h_pc = "returned"
    /\ SubmissionsJson(h_result.body).ok
    /\ LET sub == SubmissionsJson(h_result.body)
           found == latest_13f_accession(sub.recent, r_args.filing_month)
       IN  /\ found.kind = "None"
           /\ submissions' = sub
           /\ latest' = found
    /\ stages' = stages \o <<Stage("load", "loaded"), Stage("locate", "not_found")>>
    /\ End("SystemExit", "No 13F-HR filings found for this manager/period")
    /\ HttpReturn
    /\ UNCHANGED <<mode, pvars, nreq, arg, ret>>
    /\ UNCHANGED <<r_args, raw_cik, period_end, rows, fs>>

\* a filing is found but its index is past the end of reportDate: IndexError
LoadPeriodEndRaised ==
    /\ r_pc = "load"
    /\ h_pc = "returned"
    /\ SubmissionsJson(h_result.body).ok
    /\ LET sub == SubmissionsJson(h_result.body)
           found == latest_13f_accession(sub.recent, r_args.filing_month)
       IN  /\ found.kind = "dict"
           /\ ~PeriodEnd(sub, found.accession).ok
           /\ submissions' = sub
           /\ latest' = found
    /\ stages' = stages \o <<Stage("load", "loaded"), Stage("locate", "found")>>
    /\ End("IndexError", "")
    /\ HttpReturn
    /\ UNCHANGED <<mode, pvars, nreq, arg, ret>>
    /\ UNCHANGED <<r_args, raw_cik, period_end, rows, fs>>

\* a filing is found: fetch_information_table_xml(raw_cik, accession) is called
Located ==
    /\ r_pc = "load"
    /\ h_pc = "returned"
    /\ SubmissionsJson(h_result.body).ok
    /\ LET sub == SubmissionsJson(h_result.body)
           found == latest_13f_accession(sub.recent, r_args.filing_month)
       IN  /\ found.kind = "dict"
           /\ PeriodEnd(sub, found.accession).ok
           /\ submissions' = sub
           /\ latest' = found
           /\ period_end' = PeriodEnd(sub, found.accession).val
           /\ fetch_information_table_xml(raw_cik, found.accession)
    /\ stages' = stages \o <<Stage("load", "loaded"), Stage("locate", "found")>>
    /\ r_pc' = "fetch"
    /\ HttpReturn
    /\ UNCHANGED <<mode, nreq, arg, ret>>
    /\ UNCHANGED <<r_args, raw_cik, rows, fs, r_exit>>

\* fetch_information_table_xml raised, and nothing catches it
FetchRaised ==
    /\ r_pc = "fetch"
    /\ pc = "raised"
    /\ stages' = Append(stages,
          Stage("fetch", IF /\ f_result.kind = "HTTPError"
                            /\ \A k \in 1..Len(tried) : tried[k].outcome = "not_found"
                         THEN "not_found" ELSE "raised"))
    /\ End(f_result.kind, "Could not fetch information table")
    /\ UNCHANGED <<mode, hvars, pvars, nreq, arg, ret>>
    /\ UNCHANGED <<r_args, raw_cik, submissions, latest, period_end, rows, fs>>

\* (mutant) a document that is not XML gives no rows, and the files are written
DocInvalid_NoRows ==
    /\ r_pc = "fetch"
    /\ pc = "returned"
    /\ ~iter_info_table_rows(f_result.text).ok
    /\ stages' = stages \o <<Stage("fetch", "returned"), Stage("parse", "invalid"),
                              Stage("write_csv", "written")>>
    /\ rows' = <<>>
    /\ fs' = Append(fs, File(r_args.out_csv, <<>>))
    /\ r_pc' = "csv"
    /\ UNCHANGED <<mode, hvars, pvars, nreq, arg, ret>>
    /\ UNCHANGED <<r_args, raw_cik, submissions, latest, period_end, r_exit>>

\* the document is not XML: iter_info_table_rows raises ValueError
DocInvalid ==
    /\ r_pc = "fetch"
    /\ pc = "returned"
    /\ ~iter_info_table_rows(f_result.text).ok
    /\ stages' = stages \o <<Stage("fetch", "returned"), Stage("parse", "invalid")>>
    /\ End("ValueError", "Invalid XML")
    /\ UNCHANGED <<mode, hvars, pvars, nreq, arg, ret>>
    /\ UNCHANGED <<r_args, raw_cik, submissions, latest, period_end, rows, fs>>

\* the rows of the document, each with cik, manager_name and period_end
RowsOf(text) ==
    LET rs == iter_info_table_rows(text).rows
    IN  [i \in 1..Len(rs) |->
            [issuer_name |-> rs[i].issuer_name,
             value_usd_thousands |-> rs[i].value_usd_thousands,
             cik |-> pad_cik(raw_cik),
             manager_name |-> submissions.name,
             period_end |-> period_end]]

\* the rows are collected and write_csv writes them
CsvWritten ==
    /\ r_pc = "fetch"
    /\ pc = "returned"
    /\ iter_info_table_rows(f_result.text).ok
    /\ stages' = stages \o <<Stage("fetch", "returned"), Stage("parse", "parsed"),
                              Stage("write_csv", "written")>>
    /\ rows' = RowsOf(f_result.text)
    /\ fs' = Append(fs, File(r_args.out_csv, RowsOf(f_result.text)))
    /\ r_pc' = "csv"
    /\ UNCHANGED <<mode, hvars, pvars, nreq, arg, ret>>
    /\ UNCHANGED <<r_args, raw_cik, submissions, latest, period_end, r_exit>>

\* the rows are collected and write_csv cannot open its file: OSError
CsvWriteFailed ==
    /\ r_pc = "fetch"
    /\ pc = "returned"
    /\ iter_info_table_rows(f_result.text).ok
    /\ stages' = stages \o <<Stage("fetch", "returned"), Stage("parse", "parsed"),
                              Stage("write_csv", "raised")>>
    /\ rows' = RowsOf(f_result.text)
    /\ End("OSError", "")
    /\ UNCHANGED <<mode, hvars, pvars, nreq, arg, ret>>
    /\ UNCHANGED <<r_args, raw_cik, submissions, latest, period_end, fs>>

\* no summary is asked for: run returns
RunReturns ==
    /\ r_pc = "csv"
    /\ r_args.summary_json = "None"
    /\ End("return", "")
    /\ UNCHANGED <<mode, hvars, pvars, nreq, arg, ret>>
    /\ UNCHANGED <<r_args, raw_cik, submissions, latest, period_end, rows, fs, stages>>

\* summary = summarize_rows(rows), with cik, manager_name, period_end
SummaryOf(rs) ==
    [summary |-> summarize_rows(rs), cik |-> pad_cik(raw_cik),
     manager_name |-> submissions.name, period_end |-> period_end]

\* the summary is written and run returns
SummaryWritten ==
    /\ r_pc = "csv"
    /\ r_args.summary_json # "None"
    /\ stages' = Append(stages, Stage("write_json", "written"))
    /\ fs' = Append(fs, File(r_args.summary_json, SummaryOf(rows)))
    /\ End("return", "")
    /\ UNCHANGED <<mode, hvars, pvars, nreq, arg, ret>>
    /\ UNCHANGED <<r_args, raw_cik, submissions, latest, period_end, rows>>

\* write_json cannot open its file: OSError
SummaryWriteFailed ==
    /\ r_pc = "csv"
    /\ r_args.summary_json # "None"
    /\ stages' = Append(stages, Stage("write_json", "raised"))
    /\ End("OSError", "")
    /\ UNCHANGED <<mode, hvars, pvars, nreq, arg, ret>>
    /\ UNCHANGED <<r_args, raw_cik, submissions, latest, period_end, rows, fs>>

NextRun ==
    \/ RunCall
    \/ ResolveRaised
    \/ ResolveNotFound
    \/ ResolveFound
    \/ LoadRaised
    \/ LoadNoFiling
    \/ LoadPeriodEndRaised
    \/ Located
    \/ NextCandidate
    \/ Exhausted
    \/ JsonListed
    \/ JsonFailed
    \/ HtmlListed
    \/ HtmlNext
    \/ ListingRaised
    \/ DocReturned
    \/ DocRaised
    \/ FetchRaised
    \/ DocInvalid
    \/ CsvWritten
    \/ CsvWriteFailed
    \/ RunReturns
    \/ SummaryWritten
    \/ SummaryWriteFailed
    \/ HttpOk
    \/ HttpNetFail

SpecRun == InitRun /\ [][NextRun]_vars

-----------------------------------------------------------------------------
(* Claims about http_get, checked under SpecHttp *)

AllIn(seq, S) == \A i \in 1..Len(seq) : seq[i] \in S
IsPrefix(a, b) == Len(a) <= Len(b) /\ \A i \in 1..Len(a) : a[i] = b[i]
CountWhy(why) == Cardinality({i \in 1..Len(sleeps) : sleeps[i].why = why})

\* C1 (as claimed): an error status other than 429 and 503 ends the call with
\* HTTPError after that single request: it is the last request of the call
\* and no sleep follows it.
C1_ErrorStatusFailsAtOnce ==
    \A i \in 1..Len(resps) :
        resps[i] \in ErrorStatuses =>
            /\ i = Len(resps)
            /\ h_pc = "raised"
            /\ h_result.kind = "HTTPError"
            /\ Len(sleeps) = i - 1

\* C8 (as claimed): retries = 3 and responses 503, 503, 200: the call returns
\* the 200 response and has slept at most twice in total.
C8_AtMostTwoSleeps ==
    (retries = 3 /\ resps = <<"503", "503", "200">>) =>
        /\ h_pc = "returned"
        /\ h_result.status = "200"
        /\ Len(sleeps) <= 2

\* C8 (amended): retries = 3 and responses 503, 503, 200: the call never
\* raises, returns the 200 response, and has slept 1.5 s and 3.0 s for the two
\* 503 answers, followed by the polite delay sleep_s when sleep_s > 0: two
\* backoff sleeps, at most three sleeps in total.
C8_TwoBackoffSleepsThenPolite ==
    (retries = 3 /\ h_pc # "idle" /\ IsPrefix(resps, <<"503", "503", "200">>)) =>
        /\ h_pc # "raised"
        /\ (Len(resps) < 3 => h_pc = "loop")
        /\ (Len(resps) = 3 =>
              /\ h_pc = "returned"
              /\ h_result.kind = "response" /\ h_result.status = "200"
              /\ sleeps = <<Slept("rate", 15), Slept("rate", 30)>>
                           \o (IF sleep_s > 0 THEN <<Slept("polite", sleep_s)>> ELSE <<>>)
              /\ CountWhy("rate") + CountWhy("backoff") = 2
              /\ Len(sleeps) <= 3)

C8_Witness ==
    /\ retries = 3 /\ sleep_s = 5 /\ resps = <<"503", "503", "200">>
    /\ h_pc = "returned" /\ Len(sleeps) = 3

\* C9: with retries = n >= 1 and every attempt ending in a network failure,
\* the call issues exactly n requests (it is still looping before the n-th
\* and has raised HTTPError after it), and the k-th failure, k < n, is
\* followed by a sleep of k x 1.0 s, the n-th by none.
C9_NetworkFailuresExhaust ==
    (h_pc # "idle" /\ retries >= 1 /\ AllIn(resps, NetFailures)) =>
        /\ Len(resps) <= retries
        /\ (Len(resps) < retries => h_pc = "loop")
        /\ (Len(resps) = retries => h_pc = "raised" /\ h_result.kind = "HTTPError")
        /\ Len(sleeps) = Min(Len(resps), retries - 1)
        /\ \A k \in 1..Len(sleeps) : sleeps[k] = Slept("backoff", 10 * k)

C9_Witness ==
    /\ retries = 3 /\ Len(resps) = 3 /\ AllIn(resps, NetFailures)
    /\ h_pc = "raised" /\ Len(sleeps) = 2

\* C10 (as claimed): when the retry budget is exhausted, the HTTPError raised
\* carries the cause of the last failed attempt, whatever the attempts ended
\* in (network failures, 429, 503).
C10_CarriesLastCause ==
    (h_pc = "raised" /\ retries >= 1) =>
        /\ h_result.cause.type # "None"
        /\ h_result.cause.at = Len(resps)

-----------------------------------------------------------------------------
(* Claims about fetch_information_table_xml and index_listing_for_accession,
   checked under Spec *)

\* min(10.0, k * 1.5), in tenths of a second
RateDelay(k) == IF 15 * k < 100 THEN 15 * k ELSE 100

\* C11: a call of http_get makes at most `retries` requests; the k-th request,
\* when answered 429 or 503, is followed by a sleep of min(10.0, k * 1.5) s;
\* and a call answered 429 or 503 every time goes on while requests are left
\* and has raised HTTPError once `retries` requests are made.
C11_RateLimitedWithinBudget ==
    h_pc # "idle" =>
        /\ Len(resps) <= retries
        /\ nreq = Len(resps)
        /\ \A k \in 1..Len(resps) :
              resps[k] \in RetryStatuses =>
                  k <= Len(sleeps) /\ sleeps[k] = Slept("rate", RateDelay(k))
        /\ AllIn(resps, RetryStatuses) =>
              IF Len(resps) = retries
              THEN h_pc = "raised" /\ h_result.kind = "HTTPError"
              ELSE h_pc = "loop"

\* every one of at least seven requests was answered 503, the last delay was
\* the ceiling, and the call raised
C11_Witness ==
    /\ h_pc = "raised"
    /\ retries >= 7
    /\ Len(resps) = retries
    /\ AllIn(resps, RetryStatuses)
    /\ sleeps[6].dur = 90
    /\ sleeps[7].dur = 100

Started == pc # "idle" /\ f_result.kind # "ValueError"
Owners == {candidates[k][1] : k \in 1..Len(candidates)}
CandidateOf(u) == CHOOSE k \in 1..Len(candidates) : candidates[k][1] = u.cik_dir
Failures == {"listing_raised", "select_raised", "not_found", "fetch_raised"}
Raising == {"listing_raised", "select_raised", "fetch_raised"}

\* C2: the candidates are tried in order (no request goes to an earlier or a
\* later candidate than the one being tried); a candidate that fails at any
\* step does not end the call (the call raises only once all are tried); the
\* call returns the text of the document of the first candidate that did not
\* fail, and that document is the last thing it asked for.
C2_FirstSuccessInOrder ==
    Started =>
        /\ \A i \in 1..Len(log) :
             /\ log[i].cik_dir \in Owners
             /\ CandidateOf(log[i]) <= ci
             /\ \A j \in 1..Len(log) : i < j => CandidateOf(log[i]) <= CandidateOf(log[j])
        /\ \A k \in 1..Len(tried) :
             (k < Len(candidates) /\ tried[k].outcome \in Failures) =>
                 (ci > k \/ (pc = "for" /\ ci = k))
        /\ (pc = "raised" => Len(tried) = Len(candidates))
        /\ (pc = "returned" =>
              /\ Len(tried) = ci
              /\ tried[ci].outcome = "fetched"
              /\ \A k \in 1..(ci - 1) : tried[k].outcome \in Failures
              /\ f_result = Returned(tried[ci].text)
              /\ tried[ci].url = DocUrl(candidates[ci][1], candidates[ci][2], fname.name)
              /\ log[Len(log)] = tried[ci].url)

C2_Witness ==
    /\ pc = "returned"
    /\ Len(tried) = 2
    /\ tried[1].outcome = "listing_raised"
    /\ f_result.text = "xml b"

LastRaised(t) ==
    IF \E k \in 1..Len(t) : t[k].outcome \in Raising
    THEN t[CHOOSE k \in 1..Len(t) :
               /\ t[k].outcome \in Raising
               /\ \A m \in (k + 1)..Len(t) : t[m].outcome \notin Raising].exc
    ELSE NoErr

\* C3: the call raises its final HTTPError exactly when every candidate has
\* been tried and none gave a document, and the error carries the exception of
\* the last candidate step that raised, None when no step raised.
C3_FinalErrorIffExhausted ==
    Started =>
        /\ (pc = "raised" =>
              /\ Len(tried) = Len(candidates)
              /\ \A k \in 1..Len(tried) : tried[k].outcome \in Failures
              /\ f_result = CouldNotFetch(LastRaised(tried)))
        /\ (pc = "returned" => \E k \in 1..Len(tried) : tried[k].outcome = "fetched")
        /\ ((Len(tried) = Len(candidates) /\ \A k \in 1..Len(tried) : tried[k].outcome \in Failures)
              => pc \in {"for", "raised"})
        /\ (Len(tried) < Len(candidates) => pc # "raised")

C3_Witness ==
    /\ pc = "raised"
    /\ Len(tried) = 2
    /\ tried[1].outcome = "fetch_raised"
    /\ tried[2].outcome = "not_found"
    /\ f_result.cause = tried[1].exc

\* a valid item list: JSON with a list under directory.item whose elements
\* are all mappings
ValidItemList(b) ==
    b.json = "items" /\ \A i \in 1..Len(b.items) : b.items[i].t \in {"named", "noname", "null"}
ItemNamesAre(b, names) ==
    /\ Len(names) = Len(b.items)
    /\ \A i \in 1..Len(names) :
         /\ b.items[i].t = "named" => names[i] = b.items[i].name
         /\ b.items[i].t = "noname" => names[i] = <<>>
         /\ b.items[i].t = "null" => names[i] = NoneName
HtmlRequested ==
    \E i \in 1..Len(log) :
        log[i] \in {IndexHtmlUrl(CikDir, Nd), DirUrl(CikDir, Nd)}

\* C4: once the JSON index is fetched and holds a valid item list, the call
\* returns the listing built from it and never asks for an HTML url; an HTML
\* url is asked for only after the JSON step has failed.
C4_JsonListingNoHtml ==
    (Started /\ ci >= 1) =>
        /\ (Len(l_steps) = 0 => ~HtmlRequested)
        /\ (Len(l_steps) >= 1 =>
              /\ l_steps[1].url = JsonUrl(CikDir, Nd)
              /\ ((~l_steps[1].raised /\ ValidItemList(l_steps[1].body)) =>
                     /\ Len(l_steps) = 1
                     /\ l_res = "returned"
                     /\ ItemNamesAre(l_steps[1].body, listing)
                     /\ ~HtmlRequested)
              /\ (HtmlRequested =>
                     (l_steps[1].raised \/ ~ValidItemList(l_steps[1].body))))

C4_Witness ==
    /\ pc = "doc"
    /\ Len(l_steps) = 1
    /\ l_res = "returned"
    /\ listing = <<N_INFOTABLE>>
    /\ ~HtmlRequested

StepFailed(k) ==
    IF k = 1
    THEN l_steps[1].raised \/ ~ValidItemList(l_steps[1].body)
    ELSE l_steps[k].raised
         \/ \A i \in 1..Len(l_steps[k].body.hrefs) :
               HrefName(l_steps[k].body.hrefs[i]) \in {<<>>, <<".">>, <<".", ".">>}

\* C5: index_listing_for_accession raises exactly when the JSON step failed
\* and both HTML pages failed or had no files; otherwise it returns a listing,
\* from the first step that did not fail.
C5_LookupErrorExactly ==
    (Started /\ ci >= 1) =>
        /\ Len(l_steps) <= 3
        /\ \A k \in 1..(Len(l_steps) - 1) : StepFailed(k)
        /\ (l_res = "raised" <=> (Len(l_steps) = 3 /\ \A k \in 1..3 : StepFailed(k)))
        /\ (l_res = "returned" <=> (Len(l_steps) >= 1 /\ ~StepFailed(Len(l_steps))))
        /\ (l_res = "none" => pc \in {"json", "html"})

C5_Witness ==
    /\ l_res = "raised"
    /\ Len(l_steps) = 3
    /\ ~l_steps[1].raised
    /\ l_steps[2].raised
    /\ ~l_steps[3].raised

-----------------------------------------------------------------------------
(* Claim about find_information_table_filename, checked under SpecSelect *)

AllStr(names) == \A i \in 1..Len(names) : names[i] # NoneName
InTier(k, n) ==
    LET low == Lower(n)
    IN  CASE k = 1 -> /\ EndsWith(low, DOT_XML)
                      /\ \/ Contains(low, INFORMATIONTABLE)
                         \/ Contains(low, INFOTABLE)
                         \/ Contains(low, FORM13FINFO)
          [] k = 2 -> EndsWith(low, DOT_XML) /\ low # PRIMARY_DOC_XML
          [] k = 3 -> low = PRIMARY_DOC_XML
TierIndexes(k) == {i \in 1..Len(listing) : InTier(k, listing[i])}
FirstOf(I) == CHOOSE i \in I : \A j \in I : i <= j
BestTier ==
    IF TierIndexes(1) # {} THEN 1
    ELSE IF TierIndexes(2) # {} THEN 2
    ELSE IF TierIndexes(3) # {} THEN 3
    ELSE 0

\* C6: on a listing of names, the selector gives the first name (in listing
\* order, compared in lower case) of the best tier the listing has: a .xml
\* name holding informationtable, infotable or form13finfo; else a .xml name
\* other than primary_doc.xml; else primary_doc.xml; else None.
C6_PreferenceOrder ==
    (mode = "select" /\ pc = "selected" /\ AllStr(listing)) =>
        IF BestTier = 0
        THEN fname = NotFound
        ELSE /\ fname.kind = "str"
             /\ fname.name = Lower(listing[FirstOf(TierIndexes(BestTier))])
             /\ InTier(BestTier, fname.name)
             /\ \A k \in 1..(BestTier - 1) : \A i \in 1..Len(listing) : ~InTier(k, listing[i])

C6_Witness ==
    /\ mode = "select" /\ pc = "selected"
    /\ listing = <<N_README, N_PRIMARY_UPPER, N_OTHER_UPPER>>
    /\ fname = FoundName(Lower(N_OTHER_UPPER))

-----------------------------------------------------------------------------
(* Claim about the candidate list, checked under SpecCand *)

NotDash(c) == c # "-"
\* r is the digit string s without its leading zeros
RawOf(s, r) ==
    \E k \in 0..(Len(s) - 1) :
        /\ r = SubSeq(s, k + 1, Len(s))
        /\ \A i \in 1..k : s[i] = "0"
        /\ (Len(r) = 1 \/ r[1] # "0")
\* the leading component of the accession: what stands before its first "-"
LeadingComponent(acc) ==
    IF \E i \in 1..Len(acc) : acc[i] = "-"
    THEN SubSeq(acc, 1, (CHOOSE i \in 1..Len(acc) :
                            acc[i] = "-" /\ \A j \in 1..(i - 1) : acc[j] # "-") - 1)
    ELSE acc

\* C7: the list starts with (the identifier without leading zeros, the
\* accession without separators); a second candidate (the leading component
\* of the accession as a number, same accession) follows exactly when that
\* component is a number and differs from the first identifier; so there are
\* one or two candidates and their identifiers differ.
C7_CandidateList ==
    (mode = "cand" /\ pc = "for") =>
        /\ Len(candidates) \in {1, 2}
        /\ candidates[1][2] = SelectSeq(accession, NotDash)
        /\ (IsDigits(cik) => RawOf(cik, candidates[1][1]))
        /\ (Len(candidates) = 2 <=>
              /\ IsDigits(LeadingComponent(accession))
              /\ ~RawOf(LeadingComponent(accession), candidates[1][1]))
        /\ (Len(candidates) = 2 =>
              /\ RawOf(LeadingComponent(accession), candidates[2][1])
              /\ candidates[2][2] = candidates[1][2]
              /\ candidates[2][1] # candidates[1][1])

C7_Witness ==
    /\ mode = "cand" /\ pc = "for"
    /\ cik = CIK_MANAGER /\ accession = ACCESSION
    /\ candidates = << <<CIK_MANAGER, <<"0", "0", "0", "0", "9", "5", "0", "1", "2", "3", "2", "4", "0", "0", "1", "2", "3", "4">>>>,
                       <<<<"9", "5", "0", "1", "2", "3">>, <<"0", "0", "0", "0", "9", "5", "0", "1", "2", "3", "2", "4", "0", "0", "1", "2", "3", "4">>>> >>

-----------------------------------------------------------------------------
(* Claims about latest_13f_accession, checked under SpecLatest *)

\* the positions present in all three arrays that match the form type and, when
\* a filter is given, the filter
Matching(recent, fm) ==
    {i \in 1..Len(recent.form) :
        /\ i <= Len(recent.accessionNumber)
        /\ i <= Len(recent.filingDate)
        /\ recent.form[i] = "13F-HR"
        /\ (fm \in {NoneMonth, <<>>} \/ IsPrefix(fm, recent.filingDate[i]))}

EXAMPLE_HISTORY ==
    Recent(<<"10-K", "13F-HR", "13F-HR">>, <<"A", "B", "C">>,
           <<D_2024_01_10, D_2024_02_14, D_2023_11_10>>)

\* C12: latest_13f_accession returns the entry at the smallest matching
\* position, in array order and with no sorting by date, and not-found exactly
\* when no position matches; on the history of the example it returns B with
\* no filter, C for 2023-11 and not-found for 2025-01.
C12_FirstMatchInArrayOrder ==
    ret.fn = "latest_13f_accession" =>
        LET recent == arg.val.recent
            fm == arg.val.filing_month
            hits == Matching(recent, fm)
        IN  /\ (ret.val.kind = "None") <=> (hits = {})
            /\ hits # {} =>
                  \E i \in hits :
                      /\ \A j \in hits : i <= j
                      /\ ret.val = Filing(recent.accessionNumber[i], recent.filingDate[i])
            /\ recent = EXAMPLE_HISTORY =>
                  /\ fm = NoneMonth => ret.val = Filing("B", D_2024_02_14)
                  /\ fm = M_2023_11 => ret.val = Filing("C", D_2023_11_10)
                  /\ fm = M_2025_01 => ret.val = NoFiling

\* on the history of the example the filter 2023-11 skips the first 13F-HR
\* entry and returns the older filing C
C12_Witness ==
    /\ ret.fn = "latest_13f_accession"
    /\ arg.val.recent = EXAMPLE_HISTORY
    /\ arg.val.filing_month = M_2023_11
    /\ ret.val.accession = "C"

-----------------------------------------------------------------------------
(* Claims about pad_cik, checked under SpecPad *)

\* C13 as stated: padding a padded identifier changes nothing, and every
\* padded identifier has exactly 10 characters.
C13_IdempotentAndLengthTen ==
    ret.fn = "pad_cik" =>
        /\ pad_cik(ret.val) = ret.val
        /\ Len(ret.val) = 10

\* C13, amended: padding a padded identifier changes nothing; an identifier of
\* at most 10 characters is padded to exactly 10, a longer one is returned as
\* it is; and the identifier is what the padded string ends with.
C13_IdempotentAndAtLeastTen ==
    ret.fn = "pad_cik" =>
        /\ pad_cik(ret.val) = ret.val
        /\ Len(arg.val) <= 10 => Len(ret.val) = 10
        /\ Len(arg.val) > 10 => ret.val = arg.val
        /\ \/ arg.val = <<>>
           \/ EndsWith(ret.val, IF Head(arg.val) \in Signs THEN Tail(arg.val) ELSE arg.val)

\* the identifier 1067983 was padded to 0001067983
C13_Witness ==
    /\ ret.fn = "pad_cik"
    /\ arg.val = CIK_MANAGER
    /\ ret.val = <<"0", "0", "0">> \o CIK_MANAGER

-----------------------------------------------------------------------------
(* Claims about summarize_rows, checked under SpecSummary *)

ValueOf(name) == arg.val[name].value_usd_thousands
TopNames == {ret.val.top_positions[k].issuer : k \in 1..Len(ret.val.top_positions)}
RECURSIVE SumOver(_)
SumOver(names) ==
    IF names = {}
    THEN 0
    ELSE LET n == CHOOSE n \in names : TRUE IN ValueOf(n) + SumOver(names \ {n})

-----------------------------------------------------------------------------
(* More claims about fetch_information_table_xml and
   index_listing_for_accession, checked under Spec *)

\* the names on the page the listing was built from, as the page gives them
PageNames ==
    LET b == l_steps[Len(l_steps)].body
    IN  IF Len(l_steps) = 1
        THEN JsonListing(b).names
        ELSE [i \in 1..Len(b.hrefs) |-> HrefName(b.hrefs[i])]
NotAFile == {<<>>, <<".">>, <<".", ".">>}
FirstAt(names, n) == CHOOSE i \in 1..Len(names) : names[i] = n /\ \A j \in 1..(i - 1) : names[j] # n

\* C15: a listing returned by index_listing_for_accession, from the JSON index
\* or from an HTML page, holds no name twice and no empty, "." or ".." name,
\* and holds the names of the page in the order they are first seen.
C15_ListingDeduplicated ==
    (Started /\ ci >= 1 /\ l_res = "returned") =>
        /\ \A i, j \in 1..Len(listing) : i # j => listing[i] # listing[j]
        /\ \A i \in 1..Len(listing) : listing[i] \notin NotAFile
        /\ \A i \in 1..Len(listing) : \E k \in 1..Len(PageNames) : PageNames[k] = listing[i]
        /\ \A k \in 1..Len(PageNames) :
              PageNames[k] \notin NotAFile => \E i \in 1..Len(listing) : listing[i] = PageNames[k]
        /\ \A i, j \in 1..Len(listing) :
              i < j => FirstAt(PageNames, listing[i]) < FirstAt(PageNames, listing[j])

\* C16: the file name selected is one of the names of the listing, spelled as
\* the listing spells it, and the document url asked for names that file.
C16_FilenameIsFromListing ==
    (Started /\ pc = "doc") =>
        /\ fname.kind = "str"
        /\ \E i \in 1..Len(listing) : listing[i] = fname.name
        /\ \E i \in 1..Len(listing) : h_url = Url(CikDir, Nd, listing[i])

\* the HTML pages asked for so far for the candidate at hand
IndexPageAsked == \E i \in 1..Len(log) : log[i] = Url(CikDir, Nd, accession \o INDEX_HTML_SUFFIX)
DirPageAsked == \E i \in 1..Len(log) : log[i] = Url(CikDir, Nd, <<>>)
IndexOf(u) == CHOOSE i \in 1..Len(log) : log[i] = u

\* C18: after a failed JSON step the index page, named by the accession with
\* its separators followed by -index.html, is asked for first and the bare
\* directory second; the bare directory is asked for only once the index page
\* has failed or had no files; and the listing returned after the JSON step
\* failed is that of the first page that has files.
C18_HtmlPagesInOrder ==
    (Started /\ ci >= 1) =>
        /\ IndexPageAsked => Len(l_steps) >= 1 /\ StepFailed(1)
        /\ DirPageAsked =>
              /\ IndexPageAsked
              /\ IndexOf(Url(CikDir, Nd, accession \o INDEX_HTML_SUFFIX))
                    < IndexOf(Url(CikDir, Nd, <<>>))
              /\ Len(l_steps) >= 2
              /\ StepFailed(2)
        /\ Len(l_steps) >= 2 => l_steps[2].url = Url(CikDir, Nd, accession \o INDEX_HTML_SUFFIX)
        /\ Len(l_steps) >= 3 => l_steps[3].url = Url(CikDir, Nd, <<>>)
        /\ (pc = "html" /\ Len(l_steps) = 1) => IndexPageAsked /\ ~DirPageAsked
        /\ (pc = "html" /\ Len(l_steps) = 2) => DirPageAsked
        /\ (l_res = "returned" /\ Len(l_steps) >= 2) =>
              /\ listing # <<>>
              /\ listing = HtmlListing(l_steps[Len(l_steps)].body)
              /\ \A k \in 1..(Len(l_steps) - 1) : StepFailed(k)

\* the index page was fetched and had no files, and the listing returned is
\* that of the bare directory
C18_Witness ==
    /\ Started
    /\ l_res = "returned"
    /\ Len(l_steps) = 3
    /\ ~l_steps[2].raised
    /\ listing = <<N_INFOTABLE, N_README>>

\* what a call has left: candidates not yet tried, fetches the candidate at
\* hand may still make (JSON index, index page, bare directory, document),
\* and attempts the fetch at hand may still make
CandidatesLeft == Len(candidates) - ci
FetchesLeft ==
    CASE pc = "json" -> 4
      [] pc = "html" -> 4 - hi
      [] pc = "doc"  -> 1
      [] OTHER       -> 0
AttemptsLeft ==
    CASE h_pc = "loop" -> retries - attempt + 2
      [] h_pc \in {"returned", "raised"} -> 1
      [] OTHER -> 0
PerFetch == DefaultRetries + 2
PerCandidate == 5 * PerFetch
Budget ==
    CASE pc = "idle" -> 2 * PerCandidate + 2
      [] pc \in {"returned", "raised"} -> 0
      [] OTHER -> CandidatesLeft * PerCandidate + FetchesLeft * PerFetch + AttemptsLeft + 1

\* the call is about to start or to take its next candidate, or the fetch at
\* hand is in its loop, or it has ended and its caller goes on
CanStep ==
    \/ pc \in {"idle", "for"}
    \/ pc \in {"json", "html", "doc"} /\ h_pc \in {"loop", "returned", "raised"}

\* C19: a call of fetch_information_table_xml makes at most 2 x 4 fetches and
\* 2 x 4 x retries requests; every step uses up an attempt, a fetch or a
\* candidate, so that what the call has left, a natural number, goes down at
\* every step; a call that has not ended is at a point where a step's
\* condition holds; and a call that has ended has a document text or its
\* final error.
C19_TerminatesWithinBudget ==
    /\ [](/\ nreq <= 2 * 4 * DefaultRetries
          /\ Len(log) <= 2 * 4
          /\ Len(candidates) <= 2
          /\ Budget \in 0..(2 * PerCandidate + 2)
          /\ h_pc # "idle" => retries = DefaultRetries /\ Len(resps) <= retries
          /\ pc \notin {"returned", "raised"} => CanStep
          /\ (Started /\ pc \in {"returned", "raised"}) =>
                \/ pc = "returned" /\ f_result.kind = "str"
                \/ pc = "raised" /\ f_result.kind = "HTTPError")
    /\ [][Budget' < Budget]_vars

\* both candidates made their four fetches of three requests each, and the
\* call ended with its final error
C19_Witness ==
    /\ pc = "raised"
    /\ f_result.kind = "HTTPError"
    /\ Len(log) = 8
    /\ nreq = 24

-----------------------------------------------------------------------------
(* Claims about run, checked under SpecRun *)

\* C14: a stage of run that finds nothing (no identifier for the manager, no
\* matching filing, no file name in any candidate directory) is the last
\* stage executed, and run ends there with SystemExit.
C14_NotFoundEndsWithSystemExit ==
    \A k \in 1..Len(stages) :
        stages[k].out = "not_found" =>
            /\ k = Len(stages)
            /\ r_pc = "ended"
            /\ r_exit.kind = "SystemExit"
            /\ fs = <<>>

StageDone(stage, out) == \E k \in 1..Len(stages) : stages[k] = Stage(stage, out)
Failing == {"not_found", "raised", "invalid"}

\* C20: a file is written only once the identifier is resolved, the filing is
\* found, the document is retrieved and it is decoded; a run in which one of
\* these fails or finds nothing writes no file; the first file written is the
\* CSV file and the second, if there is one, the summary file.
C20_OutputOnlyAfterSuccess ==
    /\ fs # <<>> =>
          /\ r_args.manager # NoneName => StageDone("resolve", "found")
          /\ StageDone("load", "loaded")
          /\ StageDone("locate", "found")
          /\ StageDone("fetch", "returned")
          /\ StageDone("parse", "parsed")
          /\ raw_cik # NoneName
          /\ latest.kind = "dict"
          /\ pc = "returned" /\ f_result.kind = "str"
          /\ iter_info_table_rows(f_result.text).ok
    /\ (\E k \in 1..Len(stages) :
            /\ stages[k].stage \in {"resolve", "load", "locate", "fetch", "parse"}
            /\ stages[k].out \in Failing) => fs = <<>>
    /\ r_exit.kind \in {"SystemExit", "HTTPError", "JSONDecodeError", "IndexError", "ValueError"}
          => fs = <<>>
    /\ Len(fs) <= 2
    /\ Len(fs) >= 1 => fs[1].path = r_args.out_csv
    /\ Len(fs) = 2 => r_args.summary_json # "None" /\ fs[2].path = r_args.summary_json

\* a run for a manager name went through every stage and wrote the CSV file,
\* then the summary file
C20_Witness ==
    /\ r_exit.kind = "return"
    /\ r_args.manager = MANAGER
    /\ Len(fs) = 2
    /\ fs[1].path = OUT_CSV
    /\ fs[2].path = SUMMARY_JSON
    /\ Len(rows) = 2

====
